---------------------------- MODULE Spec2Model ----------------------------
(* A model of src/src/lib/board.js: the persistent Go board, its group      *)
(* search, the move (capture / suicide) resolution and the area scoring.    *)
EXTENDS Integers, Sequences, FiniteSets, TLC

VARIABLES
    size,      \* the size the board was created with (getSize)
    stones,    \* the stones mapping of the board the caller holds
    old,       \* the stones mapping of the board the last play was called on
    color,     \* the colour argument of the last play
    coords,    \* the coordinate argument of the last play
    outcome,   \* how the last play ended: Returned or the string it threw
    moves,     \* the number of play calls made so far
    boards,    \* branching games: every board value the caller holds
    parent,    \* branching games: the board each held board was derived from
    creation,  \* the createBoard call: its arguments and how it ended
    srch       \* a group search in progress: the arguments of search()

vars == <<size, stones, old, color, coords, outcome, moves, boards, parent,
          creation, srch>>

(* ------------------------------ bounds --------------------------------- *)
\* Boards of size 0..MaxSize; a game makes at most MaxMoves play calls.
MaxSize == 3
MaxMoves == 5
\* Branching games: sizes 0..MaxBranchSize, at most MaxBoards boards held.
MaxBranchSize == 2
MaxBoards == 4
\* Boards created with initial stones: at most MaxGiven of them.
MaxGiven == 1

(* ----------------------------- constants ------------------------------- *)
\* ./constants is imported by board.js; only the distinctness of the three
\* values matters to it.
EMPTY == "EMPTY"
BLACK == "BLACK"
WHITE == "WHITE"
Colors == {BLACK, WHITE}

OutOfBounds == "Intersection out of bounds"
IntersectionOccupied == "Intersection occupied by existing stone"
InvalidSize == "Size must be an integer greater than zero"
Returned == "returned"
NotCalled == "not called"

(* An argument that may be left out: <<>> when missing, <<v>> when given.   *)
Missing == <<>>
Given(v) == <<v>>

(* ------------------------------- Point --------------------------------- *)
Point(i, j) == <<i, j>>

(* An off-by-one in the upper row bound. *)
inBounds_inclusive(sz, point) ==
    point[1] >= 0 /\ point[1] <= sz /\ point[2] >= 0 /\ point[2] < sz

inBounds(sz, point) ==
    point[1] >= 0 /\ point[1] < sz /\ point[2] >= 0 /\ point[2] < sz

EmptyMap == [p \in {} |-> EMPTY]

getStone(st, c) == IF c \in DOMAIN st THEN st[c] ELSE EMPTY

replaceStone(st, c, value) ==
    [p \in (DOMAIN st) \cup {c} |-> IF p = c THEN value ELSE st[p]]

(* The offset to the west left out. *)
deltas_noWest == <<Point(-1, 0), Point(0, 1), Point(1, 0)>>

deltas == <<Point(-1, 0), Point(0, 1), Point(1, 0), Point(0, -1)>>

getAdjacentIntersections(sz, c) ==
    LET addPair(vec) == Point(vec[1] + c[1], vec[2] + c[2])
        moved == [k \in DOMAIN deltas |-> addPair(deltas[k])]
        ok(q) == inBounds(sz, q)
    IN  SelectSeq(moved, ok)

(* The intersections of a board of size sz. *)
Points(sz) == (0..(sz - 1)) \X (0..(sz - 1))

allPositions(sz) ==
    [k \in 1..(sz * sz) |-> Point((k - 1) \div sz, (k - 1) % sz)]

(* ------------------------------ getGroup ------------------------------- *)
RECURSIVE search(_, _, _, _, _, _)
search(st, sz, col, visited, queue, surrounding) ==
    IF queue = <<>>
    THEN [visited |-> visited, surrounding |-> surrounding]
    ELSE LET stone == Head(queue)
             rest == Tail(queue)
         IN  IF stone \in visited
             THEN search(st, sz, col, visited, rest, surrounding)
             ELSE LET neighbors == getAdjacentIntersections(sz, stone)
                      same(n) == getStone(st, n) = col
                      other == {neighbors[k] : k \in {x \in DOMAIN neighbors :
                                                        ~same(neighbors[x])}}
                      sur2 == [n \in DOMAIN surrounding \cup other |->
                                 IF n \in other THEN getStone(st, n)
                                                ELSE surrounding[n]]
                  IN  search(st, sz, col, visited \cup {stone},
                             rest \o SelectSeq(neighbors, same), sur2)

(* A popped point is examined whether or not it was visited before. *)
searchBody_noSkip(st, sz, col, visited, queue, surrounding) ==
    LET stone == Head(queue)
        rest == Tail(queue)
        neighbors == getAdjacentIntersections(sz, stone)
        same(n) == getStone(st, n) = col
        other == {neighbors[k] : k \in {x \in DOMAIN neighbors :
                                          ~same(neighbors[x])}}
        sur2 == [n \in DOMAIN surrounding \cup other |->
                   IF n \in other THEN getStone(st, n) ELSE surrounding[n]]
    IN  [visited |-> visited \cup {stone},
         queue |-> rest \o SelectSeq(neighbors, same),
         surrounding |-> sur2]

(* One call of search with a non-empty queue (lines 57-73): the arguments  *)
(* it passes to the next call.                                             *)
searchBody(st, sz, col, visited, queue, surrounding) ==
    LET stone == Head(queue)
        rest == Tail(queue)
    IN  IF stone \in visited
        THEN [visited |-> visited, queue |-> rest, surrounding |-> surrounding]
        ELSE LET neighbors == getAdjacentIntersections(sz, stone)
                 same(n) == getStone(st, n) = col
                 other == {neighbors[k] : k \in {x \in DOMAIN neighbors :
                                                   ~same(neighbors[x])}}
                 sur2 == [n \in DOMAIN surrounding \cup other |->
                            IF n \in other THEN getStone(st, n)
                                           ELSE surrounding[n]]
             IN  [visited |-> visited \cup {stone},
                  queue |-> rest \o SelectSeq(neighbors, same),
                  surrounding |-> sur2]

(* Every surrounding point counted as a liberty, stones included. *)
getGroup_allSurrounding(st, sz, c) ==
    LET col == getStone(st, c)
        found == search(st, sz, col, {}, <<c>>, EmptyMap)
    IN  [liberties |-> Cardinality(DOMAIN found.surrounding),
         stones |-> found.visited,
         surrounding |-> found.surrounding]

getGroup(st, sz, c) ==
    LET col == getStone(st, c)
        found == search(st, sz, col, {}, <<c>>, EmptyMap)
        liberties == {p \in DOMAIN found.surrounding :
                          found.surrounding[p] = EMPTY}
    IN  [liberties |-> Cardinality(liberties),
         stones |-> found.visited,
         surrounding |-> found.surrounding]


isDead(group) == group.liberties = 0

opponentColor(stoneColor, col) == stoneColor # col /\ stoneColor # EMPTY

(* Only the first dead group found is kept. *)
captured_firstOnly(newBoard, sz, col, c) ==
    LET neighbors == getAdjacentIntersections(sz, c)
        opp(n) == opponentColor(getStone(newBoard, n), col)
        opponents == SelectSeq(neighbors, opp)
        groups == [k \in DOMAIN opponents |-> getGroup(newBoard, sz, opponents[k])]
        dead == SelectSeq(groups, isDead)
    IN  IF dead = <<>> THEN dead ELSE <<Head(dead)>>

(* The dead opponent groups next to the played point, one entry per         *)
(* opponent neighbour, in the order of deltas (lines 125-133).              *)
captured(newBoard, sz, col, c) ==
    LET neighbors == getAdjacentIntersections(sz, c)
        opp(n) == opponentColor(getStone(newBoard, n), col)
        opponents == SelectSeq(neighbors, opp)
        groups == [k \in DOMAIN opponents |-> getGroup(newBoard, sz, opponents[k])]
    IN  SelectSeq(groups, isDead)

(* The stones of the groups, flattened into one sequence (line 141).        *)
RECURSIVE SetToSeq(_)
SetToSeq(S) ==
    IF S = {} THEN <<>>
    ELSE LET x == CHOOSE y \in S : TRUE IN <<x>> \o SetToSeq(S \ {x})

RECURSIVE flatStones(_)
flatStones(groups) ==
    IF groups = <<>> THEN <<>>
    ELSE SetToSeq(Head(groups).stones) \o flatStones(Tail(groups))

removeStone(acc, stone) == replaceStone(acc, stone, EMPTY)

(* reduce((acc, stone) => replaceStone(acc, stone, EMPTY), newBoard)        *)
RECURSIVE reduceRemove(_, _)
reduceRemove(seq, acc) ==
    IF seq = <<>> THEN acc
    ELSE reduceRemove(Tail(seq), removeStone(acc, Head(seq)))

(* A suicide that takes only the played stone off the board. *)
toRemove_onlyPlayed(newBoard, sz, col, c) ==
    LET capt == captured(newBoard, sz, col, c)
        newGroup == getGroup(newBoard, sz, c)
    IN  IF capt = <<>> /\ isDead(newGroup)
        THEN <<[newGroup EXCEPT !.stones = {c}]>>
        ELSE capt

(* The suicide test made without looking at the captures. *)
toRemove_suicideFirst(newBoard, sz, col, c) ==
    LET capt == captured(newBoard, sz, col, c)
        newGroup == getGroup(newBoard, sz, c)
    IN  IF isDead(newGroup) THEN <<newGroup>> ELSE capt

(* The played group taken off with the captures whenever it had no        *)
(* liberty before they were removed.                                       *)
toRemove_both(newBoard, sz, col, c) ==
    LET capt == captured(newBoard, sz, col, c)
        newGroup == getGroup(newBoard, sz, c)
    IN  IF isDead(newGroup) THEN Append(capt, newGroup) ELSE capt

(* No suicide rule: only captures are taken off. *)
toRemove_noSuicide(newBoard, sz, col, c) ==
    captured(newBoard, sz, col, c)

(* What is removed: the dead opponent groups, else the suicide group.       *)
toRemove(newBoard, sz, col, c) ==
    LET capt == captured(newBoard, sz, col, c)
        newGroup == getGroup(newBoard, sz, c)
    IN  IF capt = <<>> /\ isDead(newGroup) THEN <<newGroup>> ELSE capt

(* The occupied check left out. *)
occupied_never(st, c) == FALSE

(* The occupied check done on the presence of a key (stones.has). *)
occupied_hasKey(st, c) == c \in DOMAIN st

occupied(st, c) == getStone(st, c) # EMPTY

(* The occupied check made before the bounds check. *)
play_occupiedFirst(st, sz, col, c) ==
    IF occupied(st, c)
    THEN [outcome |-> IntersectionOccupied]
    ELSE IF ~inBounds(sz, c)
    THEN [outcome |-> OutOfBounds]
    ELSE LET newBoard == replaceStone(st, c, col)
             final == toRemove(newBoard, sz, col, c)
         IN  [outcome |-> Returned,
              stones |-> reduceRemove(flatStones(final), newBoard)]

play(st, sz, col, c) ==
    IF ~inBounds(sz, c)
    THEN [outcome |-> OutOfBounds]
    ELSE IF occupied(st, c)
    THEN [outcome |-> IntersectionOccupied]
    ELSE LET newBoard == replaceStone(st, c, col)
             final == toRemove(newBoard, sz, col, c)
         IN  [outcome |-> Returned,
              stones |-> reduceRemove(flatStones(final), newBoard)]

(* ------------------------------ accessors ------------------------------ *)
(* The filter tests for a stone, not for the colour asked. *)
getStones_anyStone(st, col) == {p \in DOMAIN st : st[p] # EMPTY}

getStones(st, col) == {p \in DOMAIN st : st[p] = col}

getSize(sz) == sz

(* Territory given to a bordering colour even when both colours border. *)
scoreGroup_anyBorder(score, state, group) ==
    LET groupStones == group.stones
        surroundingColors ==
            {group.surrounding[p] : p \in DOMAIN group.surrounding}
        first == CHOOSE x \in surroundingColors : TRUE
    IN  IF state = EMPTY
        THEN IF Cardinality(surroundingColors) >= 1
             THEN [score EXCEPT ![first] = @ + Cardinality(groupStones)]
             ELSE score
        ELSE [score EXCEPT ![state] = @ + Cardinality(groupStones)]

(* One region's contribution to the score (lines 161-168).                 *)
scoreGroup(score, state, group) ==
    LET groupStones == group.stones
        surroundingColors ==
            {group.surrounding[p] : p \in DOMAIN group.surrounding}
        first == CHOOSE x \in surroundingColors : TRUE
    IN  IF state = EMPTY
        THEN IF Cardinality(surroundingColors) = 1
             THEN [score EXCEPT ![first] = @ + Cardinality(groupStones)]
             ELSE score
        ELSE [score EXCEPT ![state] = @ + Cardinality(groupStones)]

(* The group is not marked, so each of its points is scored again. *)
markVisited_none(visited, groupStones) == visited

markVisited(visited, groupStones) == visited \cup groupStones

RECURSIVE scoreFrom(_, _, _, _, _)
scoreFrom(st, sz, positions, visited, score) ==
    IF positions = <<>> THEN score
    ELSE LET c == Head(positions)
         IN  IF c \in visited
             THEN scoreFrom(st, sz, Tail(positions), visited, score)
             ELSE LET state == getStone(st, c)
                      group == getGroup(st, sz, c)
                  IN  scoreFrom(st, sz, Tail(positions),
                                markVisited(visited, group.stones),
                                scoreGroup(score, state, group))

areaScore(st, sz) ==
    scoreFrom(st, sz, allPositions(sz), {}, [x \in Colors |-> 0])

(* createBoard(size, stones): a board value closes over its size and its   *)
(* stones mapping.                                                         *)
createBoard(sz, st) == [size |-> sz, stones |-> st]

(* Zero is refused too, as the message thrown says. *)
createBoardCall_positiveOnly(sizeArg, stonesArg) ==
    IF sizeArg = Missing \/ sizeArg[1] <= 0
    THEN [outcome |-> InvalidSize]
    ELSE [outcome |-> Returned,
          board |-> createBoard(sizeArg[1],
                                IF stonesArg = Missing THEN EmptyMap
                                                       ELSE stonesArg[1])]

(* A call of createBoard: the size check and the default for the stones    *)
(* (lines 85-89).                                                          *)
createBoardCall(sizeArg, stonesArg) ==
    IF sizeArg = Missing \/ sizeArg[1] < 0
    THEN [outcome |-> InvalidSize]
    ELSE [outcome |-> Returned,
          board |-> createBoard(sizeArg[1],
                                IF stonesArg = Missing THEN EmptyMap
                                                       ELSE stonesArg[1])]

(* The board play returns is written over the board it was called on. *)
returned_inPlace(held, b, newBoard) ==
    Append([held EXCEPT ![b] = newBoard], newBoard)

(* play builds its result in fresh mappings (Immutable's set returns a new *)
(* map) and returns a new board; the boards held so far are not touched.   *)
returned(held, b, newBoard) == Append(held, newBoard)

(* ------------------------- the state machine --------------------------- *)
InputCoords(sz) == (-1..sz) \X (-1..sz)

(* The record of a createBoard call that returned a board. *)
Created(sz, stonesArg) ==
    [sizeArg |-> Given(sz), stonesArg |-> stonesArg, outcome |-> Returned]

(* No group search is going on. *)
Idle ==
    [active |-> FALSE, color |-> EMPTY, visited |-> {}, queue |-> <<>>,
     surrounding |-> EmptyMap, examined |-> <<>>]

Init ==
    /\ size \in 0..MaxSize
    /\ stones = EmptyMap
    /\ old = EmptyMap
    /\ color = BLACK
    /\ coords = Point(0, 0)
    /\ outcome = NotCalled
    /\ moves = 0
    /\ boards = <<>>
    /\ parent = <<>>
    /\ creation = Created(size, Missing)
    /\ srch = Idle

Play(col, c) ==
    /\ moves < MaxMoves
    /\ LET r == play(stones, size, col, c)
       IN  /\ outcome' = r.outcome
           /\ stones' = IF r.outcome = Returned THEN r.stones ELSE stones
           /\ moves' = moves + 1
    /\ old' = stones
    /\ color' = col
    /\ coords' = c
    /\ UNCHANGED <<size, boards, parent, creation, srch>>

Next == \E col \in Colors : \E c \in InputCoords(size) : Play(col, c)

Spec == Init /\ [][Next]_vars

(* Games on a board created with initial stones: createBoard(size, stones) *)
(* takes whatever mapping the caller gives, keys outside the board too.    *)
GivenStones(sz) ==
    UNION {[K -> Colors] :
              K \in {X \in SUBSET InputCoords(sz) : Cardinality(X) <= MaxGiven}}

InitGiven ==
    /\ size \in 0..MaxBranchSize
    /\ stones \in GivenStones(size)
    /\ old = stones
    /\ color = BLACK
    /\ coords = Point(0, 0)
    /\ outcome = NotCalled
    /\ moves = 0
    /\ boards = <<>>
    /\ parent = <<>>
    /\ creation = Created(size, Given(stones))
    /\ srch = Idle

SpecGiven == InitGiven /\ [][Next]_vars

(* The same games without the record of the last call: the positions that *)
(* plays from an empty board reach.                                        *)
PlayPosition(col, c) ==
    /\ moves < MaxMoves
    /\ LET r == play(stones, size, col, c)
       IN  /\ outcome' = r.outcome
           /\ stones' = IF r.outcome = Returned THEN r.stones ELSE stones
    /\ moves' = moves + 1
    /\ UNCHANGED <<size, old, color, coords, boards, parent, creation, srch>>

NextPosition ==
    \E col \in Colors : \E c \in InputCoords(size) : PlayPosition(col, c)

SpecPositions == Init /\ [][NextPosition]_vars

(* Branching games: the caller keeps every board it was given and may play *)
(* on any of them.                                                         *)
InitBranch ==
    /\ size \in 0..MaxBranchSize
    /\ boards = <<createBoard(size, EmptyMap)>>
    /\ parent = <<0>>
    /\ outcome = NotCalled
    /\ stones = EmptyMap
    /\ old = EmptyMap
    /\ color = BLACK
    /\ coords = Point(0, 0)
    /\ moves = 0
    /\ creation = Created(size, Missing)
    /\ srch = Idle

PlayOn(b, col, c) ==
    /\ Len(boards) < MaxBoards
    /\ LET r == play(boards[b].stones, boards[b].size, col, c)
       IN  /\ outcome' = r.outcome
           /\ IF r.outcome = Returned
              THEN /\ boards' = returned(boards, b,
                                         createBoard(boards[b].size, r.stones))
                   /\ parent' = Append(parent, b)
              ELSE UNCHANGED <<boards, parent>>
    /\ UNCHANGED <<size, stones, old, color, coords, moves, creation, srch>>

NextBranch ==
    \E b \in DOMAIN boards : \E col \in Colors :
        \E c \in InputCoords(size) : PlayOn(b, col, c)

SpecBranch == InitBranch /\ [][NextBranch]_vars

(* Group searches followed call by call, on the positions that plays from *)
(* an empty board reach. A search, once started, runs to its end: nothing  *)
(* else happens on the board meanwhile.                                    *)
InitSearch ==
    /\ size \in 0..MaxBranchSize
    /\ stones = EmptyMap
    /\ old = EmptyMap
    /\ color = BLACK
    /\ coords = Point(0, 0)
    /\ outcome = NotCalled
    /\ moves = 0
    /\ boards = <<>>
    /\ parent = <<>>
    /\ creation = Created(size, Missing)
    /\ srch = Idle

StartSearch(c) ==
    /\ ~srch.active
    /\ srch' = [active |-> TRUE, color |-> getStone(stones, c), visited |-> {},
                queue |-> <<c>>, surrounding |-> EmptyMap, examined |-> <<>>]
    /\ UNCHANGED <<size, stones, old, color, coords, outcome, moves, boards,
                   parent, creation>>

SearchCall ==
    /\ srch.active
    /\ srch.queue # <<>>
    /\ LET n == searchBody(stones, size, srch.color, srch.visited, srch.queue,
                           srch.surrounding)
           stone == Head(srch.queue)
       IN  srch' = [srch EXCEPT !.visited = n.visited,
                                !.queue = n.queue,
                                !.surrounding = n.surrounding,
                                !.examined = IF n.queue = Tail(srch.queue)
                                                /\ n.surrounding = srch.surrounding
                                                /\ n.visited = srch.visited
                                             THEN @ ELSE Append(@, stone)]
    /\ UNCHANGED <<size, stones, old, color, coords, outcome, moves, boards,
                   parent, creation>>

SearchReturn ==
    /\ srch.active
    /\ srch.queue = <<>>
    /\ srch' = Idle
    /\ UNCHANGED <<size, stones, old, color, coords, outcome, moves, boards,
                   parent, creation>>

NextSearch ==
    \/ /\ ~srch.active
       /\ \E col \in Colors : \E c \in InputCoords(size) : PlayPosition(col, c)
    \/ \E c \in Points(size) : StartSearch(c)
    \/ SearchCall
    \/ SearchReturn

SpecSearch ==
    InitSearch /\ [][NextSearch]_vars /\ WF_vars(SearchCall) /\ WF_vars(SearchReturn)

(* Games that start with the createBoard call itself, with or without a    *)
(* size and with or without initial stones.                                *)
SizeArgs == {Missing} \cup {Given(n) : n \in (0 - MaxBranchSize)..MaxBranchSize}

StonesArgs == {Missing} \cup {Given(m) : m \in GivenStones(MaxBranchSize)}

InitCreate ==
    /\ size = 0
    /\ boards = <<>>
    /\ parent = <<>>
    /\ outcome = NotCalled
    /\ stones = EmptyMap
    /\ old = EmptyMap
    /\ color = BLACK
    /\ coords = Point(0, 0)
    /\ moves = 0
    /\ creation = [sizeArg |-> Missing, stonesArg |-> Missing,
                   outcome |-> NotCalled]
    /\ srch = Idle

Create(sizeArg, stonesArg) ==
    /\ boards = <<>>
    /\ LET r == createBoardCall(sizeArg, stonesArg)
       IN  /\ creation' = [sizeArg |-> sizeArg, stonesArg |-> stonesArg,
                           outcome |-> r.outcome]
           /\ IF r.outcome = Returned
              THEN /\ boards' = <<r.board>>
                   /\ parent' = <<0>>
                   /\ size' = getSize(r.board.size)
              ELSE UNCHANGED <<boards, parent, size>>
    /\ UNCHANGED <<stones, old, color, coords, outcome, moves, srch>>

NextCreate ==
    \/ \E sizeArg \in SizeArgs : \E stonesArg \in StonesArgs :
           Create(sizeArg, stonesArg)
    \/ \E b \in DOMAIN boards : \E col \in Colors :
           \E c \in InputCoords(size) : PlayOn(b, col, c)

SpecCreate == InitCreate /\ [][NextCreate]_vars


(* ----------------- the rules of the game, stated afresh ---------------- *)
(* These definitions describe the board as a caller sees it and are used   *)
(* only to state properties; none of them is used by the operations.       *)
Grid(st, sz) == [p \in Points(sz) |-> getStone(st, p)]

Adjacent(p, q) ==
    \/ p[1] = q[1] /\ (p[2] - q[2] = 1 \/ q[2] - p[2] = 1)
    \/ p[2] = q[2] /\ (p[1] - q[1] = 1 \/ q[1] - p[1] = 1)

(* The maximal connected set of points of colour col that contains S. *)
RECURSIVE Component(_, _, _)
Component(g, col, S) ==
    LET more == S \cup {q \in DOMAIN g :
                          g[q] = col /\ \E s \in S : Adjacent(s, q)}
    IN  IF more = S THEN S ELSE Component(g, col, more)

ComponentOf(g, p) == Component(g, g[p], {p})

Border(g, G) == {q \in (DOMAIN g) \ G : \E s \in G : Adjacent(s, q)}

Liberties(g, G) == {q \in Border(g, G) : g[q] = EMPTY}

Opponent(col) == IF col = BLACK THEN WHITE ELSE BLACK

(* The last play, as the caller saw it. *)
Called == outcome # NotCalled
Succeeded == outcome = Returned
OldGrid == Grid(old, size)
NewGrid == Grid(stones, size)
Tentative == [OldGrid EXCEPT ![coords] = color]

(* The opponent groups next to the played point that have no liberty on    *)
(* the tentative board.                                                    *)
DeadOpponentGroups ==
    {G \in {ComponentOf(Tentative, q) :
               q \in {x \in Points(size) :
                         Adjacent(x, coords) /\ Tentative[x] = Opponent(color)}} :
        Liberties(Tentative, G) = {}}

OwnGroup == ComponentOf(Tentative, coords)

(* C1: a successful play that leaves opponent groups next to the played    *)
(* point without liberties removes exactly the stones of those groups; the *)
(* played stone and every other intersection keep the tentative colour.    *)
C1_CaptureCorrect ==
    (Succeeded /\ DeadOpponentGroups # {}) =>
        \A p \in Points(size) :
            NewGrid[p] = IF p \in UNION DeadOpponentGroups
                         THEN EMPTY ELSE Tentative[p]

C1_Witness ==
    /\ Succeeded
    /\ Cardinality(DeadOpponentGroups) >= 2
    /\ \A G \in DeadOpponentGroups : \A p \in G : NewGrid[p] = EMPTY

(* C2: a play that captures nothing and whose own group has no liberty on  *)
(* the tentative board empties every stone of that group, the stones that  *)
(* were there before the move included; no opponent stone changes.         *)
C2_Suicide ==
    (Succeeded /\ DeadOpponentGroups = {} /\ Liberties(Tentative, OwnGroup) = {}) =>
        \A p \in Points(size) :
            NewGrid[p] = IF p \in OwnGroup THEN EMPTY ELSE OldGrid[p]

C2_Witness ==
    /\ Succeeded
    /\ DeadOpponentGroups = {}
    /\ Liberties(Tentative, OwnGroup) = {}
    /\ Cardinality(OwnGroup) >= 2
    /\ \A p \in OwnGroup : NewGrid[p] = EMPTY

(* C3: a play on an in-bounds intersection that holds a stone throws the   *)
(* occupied error, whatever the colour played, and the caller's board is   *)
(* the one it had.                                                         *)
C3_OccupiedRejected ==
    (Called /\ inBounds(size, coords) /\ getStone(old, coords) \in Colors) =>
        outcome = IntersectionOccupied /\ stones = old

C3_Witness ==
    /\ outcome = IntersectionOccupied
    /\ getStone(old, coords) = Opponent(color)
    /\ stones = old

(* C4: a play outside [0, size) x [0, size) throws the out-of-bounds error,  *)
(* also when the mapping holds a stone at that coordinate, and the caller's *)
(* board is the one it had; on a board of size 0 every play does.           *)
C4_OutOfBoundsRejected ==
    /\ (Called /\ ~inBounds(size, coords)) =>
           outcome = OutOfBounds /\ stones = old
    /\ (Called /\ size = 0) => outcome = OutOfBounds

C4_Witness ==
    /\ outcome = OutOfBounds
    /\ coords[1] = size - 1
    /\ coords[2] = size
    /\ getStone(old, coords) \in Colors
    /\ \E p \in Points(size) : OldGrid[p] # EMPTY
    /\ stones = old

(* What a caller can read from a board. *)
Reads(board) ==
    [grid |-> Grid(board.stones, board.size),
     size |-> getSize(board.size),
     score |-> areaScore(board.stones, board.size)]

(* C5: whatever is played later, on whichever held board, every board held *)
(* before the play reads as it did: same stones at every coordinate, same  *)
(* size, same score.                                                       *)
C5_OldBoardsPersist ==
    [][\A b \in DOMAIN boards :
          b \in DOMAIN boards' /\ Reads(boards'[b]) = Reads(boards[b])]_vars

(* A board that was played on twice, with a grandchild besides, all four   *)
(* reading differently.                                                    *)
C5_Witness ==
    /\ Len(boards) = 4
    /\ parent = <<0, 1, 2, 1>>
    /\ \A a, b \in DOMAIN boards : a # b => Reads(boards[a]) # Reads(boards[b])

(* C6: no key of the stones mapping maps to EMPTY. *)
C6_CanonicalOmission ==
    \A p \in DOMAIN stones : stones[p] \in Colors


(* Area scoring stated on the grid. *)
StonesOf(g, col) == {p \in DOMAIN g : g[p] = col}

BorderColors(g, G) == {g[q] : q \in Border(g, G)} \ {EMPTY}

Territory(g, col) ==
    {p \in DOMAIN g : g[p] = EMPTY /\ BorderColors(g, ComponentOf(g, p)) = {col}}

Neutral(g) ==
    {p \in DOMAIN g :
        g[p] = EMPTY /\ Cardinality(BorderColors(g, ComponentOf(g, p))) # 1}

Score == areaScore(stones, size)

(* C7: each colour scores its stones plus the empty regions bordered by    *)
(* stones of that colour alone; an empty board scores nothing.             *)
C7_AreaScore ==
    /\ DOMAIN Score = Colors
    /\ \A col \in Colors :
           Score[col] = Cardinality(StonesOf(NewGrid, col))
                          + Cardinality(Territory(NewGrid, col))
    /\ (StonesOf(NewGrid, EMPTY) = Points(size)) =>
           Score = [col \in Colors |-> 0]

C7_Witness ==
    /\ Territory(NewGrid, BLACK) # {}
    /\ \E p \in Neutral(NewGrid) :
           BorderColors(NewGrid, ComponentOf(NewGrid, p)) = Colors
    /\ StonesOf(NewGrid, WHITE) # {}
    /\ Score[BLACK] = Cardinality(StonesOf(NewGrid, BLACK))
                        + Cardinality(Territory(NewGrid, BLACK))
    /\ Score[WHITE] = Cardinality(StonesOf(NewGrid, WHITE))

(* C8: the two scores together count every intersection that is not in a   *)
(* neutral or contested empty region exactly once, so they sum to at most  *)
(* size*size, and to size*size exactly when there is no such region.       *)
C8_ScoreConservesArea ==
    LET total == Score[BLACK] + Score[WHITE]
    IN  /\ total <= size * size
        /\ total = size * size - Cardinality(Neutral(NewGrid))
        /\ (total = size * size) <=> (Neutral(NewGrid) = {})

C8_Witness ==
    /\ size = 3
    /\ Score[BLACK] + Score[WHITE] = size * size
    /\ Territory(NewGrid, BLACK) # {}
    /\ \E p \in DOMAIN stones : stones[p] = EMPTY

AllColors == {EMPTY, BLACK, WHITE}

(* C9 as claimed: getStones(color) is the set of coordinates holding color *)
(* for BLACK, WHITE and EMPTY.                                             *)
C9_GetStonesEveryColor ==
    \A col \in AllColors :
        getStones(stones, col) = StonesOf(NewGrid, col)

(* C9, amended: getStones(color) is the set of coordinates holding color   *)
(* for BLACK and WHITE; for EMPTY it returns empty intersections only, but *)
(* not all of them.                                                        *)
C9_GetStonesOfColor ==
    /\ \A col \in Colors : getStones(stones, col) = StonesOf(NewGrid, col)
    /\ getStones(stones, EMPTY) \subseteq StonesOf(NewGrid, EMPTY)

C9_Witness ==
    /\ Succeeded
    /\ getStones(stones, BLACK) # {}
    /\ getStones(stones, WHITE) # {}
    /\ \A col \in Colors : getStones(stones, col) = StonesOf(NewGrid, col)
    /\ getStones(stones, EMPTY) # {}
    /\ getStones(stones, EMPTY) # StonesOf(NewGrid, EMPTY)

(* C10: a play with BLACK or WHITE on an in-bounds EMPTY intersection      *)
(* returns a board, suicide included; the out-of-bounds and the occupied   *)
(* errors are the only failures, each raised in its own case only.         *)
C10_PlayTotalOnLegalTargets ==
    Called =>
        /\ color \in Colors
        /\ outcome \in {Returned, OutOfBounds, IntersectionOccupied}
        /\ (inBounds(size, coords) /\ OldGrid[coords] = EMPTY) => Succeeded
        /\ (outcome = OutOfBounds) => ~inBounds(size, coords)
        /\ (outcome = IntersectionOccupied) =>
               inBounds(size, coords) /\ OldGrid[coords] # EMPTY

(* A suicide accepted on a point that a capture had emptied before. *)
C10_Witness ==
    /\ Succeeded
    /\ coords \in DOMAIN old
    /\ DeadOpponentGroups = {}
    /\ Liberties(Tentative, OwnGroup) = {}
    /\ NewGrid[coords] = EMPTY


(* C11: every key of the stones mapping of every board derived from        *)
(* createBoard(n) lies in [0, n) x [0, n), and every derived board has     *)
(* size n, whatever plays were made, failed ones included.                 *)
C11_KeysInBounds ==
    \A b \in DOMAIN boards :
        /\ getSize(boards[b].size) = size
        /\ \A p \in DOMAIN boards[b].stones :
               0 <= p[1] /\ p[1] < size /\ 0 <= p[2] /\ p[2] < size

C11_Witness ==
    /\ Len(boards) = 3
    /\ outcome = OutOfBounds
    /\ Cardinality(DOMAIN boards[3].stones) = 2
    /\ \A p \in DOMAIN boards[3].stones : p \in Points(size)
    /\ boards[3].size = size


C13_CaptureBeforeSuicide ==
    Succeeded =>
        /\ (DeadOpponentGroups # {}) =>
               \A p \in OwnGroup : NewGrid[p] = color
        /\ (NewGrid[coords] = EMPTY) => DeadOpponentGroups = {}

C13_Witness ==
    /\ Succeeded
    /\ DeadOpponentGroups # {}
    /\ Liberties(Tentative, OwnGroup) = {}
    /\ \A p \in OwnGroup : NewGrid[p] = color
    /\ \A p \in UNION DeadOpponentGroups : NewGrid[p] = EMPTY


(* The group search on the board the caller holds. *)
GroupAt(c) == getGroup(stones, size, c)

(* C14: the stones found from a point holding a stone are the maximal      *)
(* connected set of points of its colour around it: all of the seed's      *)
(* colour, the seed among them, no point of that colour next to the set    *)
(* and outside it; every member, taken as seed, gives the same set.        *)
C14_GroupClosure ==
    \A c \in Points(size) :
        (NewGrid[c] # EMPTY) =>
            LET G == GroupAt(c).stones
            IN  /\ c \in G
                /\ \A m \in G : NewGrid[m] = NewGrid[c]
                /\ \A q \in Border(NewGrid, G) : NewGrid[q] # NewGrid[c]
                /\ G = ComponentOf(NewGrid, c)
                /\ \A m \in G : GroupAt(m).stones = G

(* A bent group of three or more stones next to a separate group of the    *)
(* other colour.                                                           *)
C14_Witness ==
    \E c \in Points(size) :
        /\ NewGrid[c] # EMPTY
        /\ Cardinality(GroupAt(c).stones) >= 3
        /\ \E m, n \in GroupAt(c).stones : m[1] # n[1] /\ m[2] # n[2]
        /\ \E q \in Border(NewGrid, GroupAt(c).stones) : NewGrid[q] \in Colors
        /\ GroupAt(c).stones = ComponentOf(NewGrid, c)

Range(seq) == {seq[k] : k \in DOMAIN seq}

(* C16: a group search ends with an empty queue; while it runs, visited    *)
(* only grows, no point has its neighbours examined twice, at most         *)
(* size*size points are examined, and what it ends with is what getGroup   *)
(* computes.                                                               *)
C16_SearchTerminates ==
    /\ [](srch.active =>
            /\ Cardinality(Range(srch.examined)) = Len(srch.examined)
            /\ Len(srch.examined) <= size * size
            /\ Range(srch.examined) = srch.visited
            /\ srch.visited \subseteq Points(size)
            /\ (srch.queue = <<>>) =>
                   /\ srch.visited = getGroup(stones, size, srch.examined[1]).stones
                   /\ srch.surrounding =
                          getGroup(stones, size, srch.examined[1]).surrounding)
    /\ [][(srch.active /\ srch.active') => srch.visited \subseteq srch.visited']_vars
    /\ (srch.active ~> (srch.active /\ srch.queue = <<>>))

(* A search that ended after examining every point of a 2 x 2 region, a    *)
(* point that was queued twice having been skipped.                        *)
C16_Witness ==
    /\ srch.active
    /\ srch.queue = <<>>
    /\ Len(srch.examined) = 4
    /\ size = 2
    /\ \E p \in DOMAIN stones : stones[p] = EMPTY


(* The capture set play builds for the recorded call (lines 129-133).      *)
CaptureSet == captured(replaceStone(old, coords, color), size, color, coords)

(* C17: the capture set of a successful play holds no group twice: no two  *)
(* of its entries have the same stone set.                                 *)
C17_CaptureSetDeduplicated ==
    Succeeded =>
        \A j, k \in DOMAIN CaptureSet :
            CaptureSet[j].stones = CaptureSet[k].stones => j = k

(* C18: on every board reached from the empty board by plays of BLACK and  *)
(* WHITE, every group of stones has at least one liberty.                  *)
C18_NoDeadGroup ==
    \A p \in Points(size) :
        NewGrid[p] # EMPTY => Liberties(NewGrid, ComponentOf(NewGrid, p)) # {}

(* A position left by a removal, with both colours on the board and a      *)
(* group down to its last liberty.                                         *)
C18_Witness ==
    /\ outcome = Returned
    /\ \E p \in DOMAIN stones : stones[p] = EMPTY
    /\ StonesOf(NewGrid, BLACK) # {}
    /\ StonesOf(NewGrid, WHITE) # {}
    /\ \E p \in Points(size) :
           /\ NewGrid[p] # EMPTY
           /\ Cardinality(Liberties(NewGrid, ComponentOf(NewGrid, p))) = 1
           /\ Cardinality(ComponentOf(NewGrid, p)) >= 2

Count(g, col) == Cardinality(StonesOf(g, col))

(* What the recorded play took off the tentative board. *)
Removed == {p \in Points(size) : Tentative[p] # EMPTY /\ NewGrid[p] = EMPTY}

(* C19: a successful play removes stones of at most one colour. Either     *)
(* only opponent stones go and the mover gains exactly one stone, or only  *)
(* the mover's stones go and the opponent's count is unchanged, or nothing *)
(* goes and the total grows by one; no point that was EMPTY holds a stone  *)
(* afterwards, coords excepted.                                            *)
C19_OneColourRemoved ==
    Succeeded =>
        /\ \/ /\ Removed # {}
              /\ \A p \in Removed : Tentative[p] = Opponent(color)
              /\ Count(NewGrid, color) = Count(OldGrid, color) + 1
           \/ /\ Removed # {}
              /\ \A p \in Removed : Tentative[p] = color
              /\ Count(NewGrid, Opponent(color)) = Count(OldGrid, Opponent(color))
           \/ /\ Removed = {}
              /\ Count(NewGrid, BLACK) + Count(NewGrid, WHITE)
                     = Count(OldGrid, BLACK) + Count(OldGrid, WHITE) + 1
        /\ \A p \in Points(size) :
               (OldGrid[p] = EMPTY /\ NewGrid[p] # EMPTY) => p = coords
        /\ \A p \in Points(size) : NewGrid[p] \in {Tentative[p], EMPTY}

(* A capture of two or more stones made by a stone that had no liberty of  *)
(* its own until they were removed.                                        *)
C19_Witness ==
    /\ Succeeded
    /\ Cardinality(Removed) >= 2
    /\ \A p \in Removed : Tentative[p] = Opponent(color)
    /\ Liberties(Tentative, OwnGroup) = {}
    /\ Count(NewGrid, color) = Count(OldGrid, color) + 1

(* The keys of the mapping that hold EMPTY, left behind by removals. *)
EmptyKeys(st) == {p \in DOMAIN st : st[p] = EMPTY}

(* The mappings that show the same grid as st with some of those keys      *)
(* absent; the one with none of them is what plays without captures build. *)
Twins(st) ==
    {[p \in (DOMAIN st) \ D |-> st[p]] : D \in (SUBSET EmptyKeys(st)) \ {{}}}

SameResult(a, b) ==
    /\ a.outcome = b.outcome
    /\ (a.outcome = Returned) => Grid(a.stones, size) = Grid(b.stones, size)

(* C20: a board whose mapping differs from the caller's but shows the same *)
(* grid gives the same results: play fails on both in the same way or      *)
(* succeeds on both with boards showing the same grid, and areaScore is    *)
(* equal.                                                                  *)
C20_VisibleGridOnly ==
    \A t \in Twins(stones) :
        /\ Grid(t, size) = NewGrid
        /\ areaScore(t, size) = Score
        /\ \A col \in Colors : \A c \in InputCoords(size) :
               /\ SameResult(play(stones, size, col, c), play(t, size, col, c))
               /\ getStones(t, col) = getStones(stones, col)

(* A board left by a capture, stones of both colours on it, on which a     *)
(* play at the emptied point succeeds and captures again, as it does on    *)
(* the board without the EMPTY key.                                        *)
C20_Witness ==
    /\ StonesOf(NewGrid, BLACK) # {}
    /\ StonesOf(NewGrid, WHITE) # {}
    /\ \E p \in EmptyKeys(stones) : \E col \in Colors : \E t \in Twins(stones) :
           LET a == play(stones, size, col, p)
               b == play(t, size, col, p)
           IN  /\ t # stones
               /\ a.outcome = Returned
               /\ b.outcome = Returned
               /\ Grid(a.stones, size) = Grid(b.stones, size)
               /\ a.stones # b.stones

=============================================================================
